---- MODULE Spec2Model ----
(***************************************************************************)
(* Model of translator.py: a scanner, a recursive-descent parser and a     *)
(* semantic analyzer for expressions over INT, "+", "*" and pow(a,b),      *)
(* driven by main() or by run_tests().                                     *)
(*                                                                         *)
(* A source text is a sequence of one-character strings.  Python's None is *)
(* modelled by NoneVal (numbers), NoneNode (AST nodes) and NoneToken       *)
(* (tokens).  Python integers are unbounded; the inputs are bounded so     *)
(* that every computed value stays inside TLC's integer range.             *)
(***************************************************************************)
EXTENDS Integers, Sequences, FiniteSets, TLC

VARIABLES
    driver,           \* "main" or "run_tests": which entry point runs (lines 662-666)
    pc,               \* position of the driver
    source,           \* the text handed to Scanner(source)
    test_i,           \* run_tests: index of the current test case (0-based)
    passed, failed,   \* run_tests: counters
    output,           \* kind of the last message the driver printed
    tokens,           \* Scanner.tokens
    pos, line, col,   \* Scanner.pos, Scanner.line, Scanner.col
    scanner_errors,   \* Scanner.errors
    parser_pos,       \* Parser.pos
    current_token,    \* Parser.current_token
    parser_errors,    \* Parser.errors
    ast,              \* Parser.ast
    semantic_errors,  \* SemanticAnalyzer.errors
    result            \* value returned by SemanticAnalyzer.evaluate()

vars == <<driver, pc, source, test_i, passed, failed, output, tokens, pos, line,
          col, scanner_errors, parser_pos, current_token, parser_errors, ast,
          semantic_errors, result>>

scanner_vars == <<tokens, pos, line, col, scanner_errors>>
parser_vars == <<parser_pos, current_token, parser_errors, ast>>
semantic_vars == <<semantic_errors, result>>

-----------------------------------------------------------------------------
(* Bounds of the model.                                                    *)

\* longest text of the exhaustive input family
MaxLen == 3
\* most operators (+, *, pow) in a generated well-formed expression
MaxOps == 2
\* most operators in the expressions that are damaged by one character
MaxEditOps == 1

-----------------------------------------------------------------------------
(* Python values.                                                          *)

NoneVal == -1
NoneNode == <<>>
NoneToken == [type |-> "None", value |-> NoneVal, line |-> 0, col |-> 0]

\* a character for which str.isdigit() is true and int() raises ValueError
SUP2 == "²"

AsciiDigits == {"0", "1", "2", "3", "4", "5", "6", "7", "8", "9"}

isdigit(ch) == ch \in AsciiDigits \cup {SUP2}

DigitValue(ch) ==
    CASE ch = "0" -> 0 [] ch = "1" -> 1 [] ch = "2" -> 2 [] ch = "3" -> 3
      [] ch = "4" -> 4 [] ch = "5" -> 5 [] ch = "6" -> 6 [] ch = "7" -> 7
      [] ch = "8" -> 8 [] ch = "9" -> 9

\* int(num_str) raises ValueError
IntRaisesValueError(num_str) == \E i \in 1..Len(num_str) : num_str[i] \notin AsciiDigits

RECURSIVE IntReversed(_)
IntReversed(num_str) ==
    IF num_str = <<>> THEN 0
    ELSE DigitValue(Head(num_str)) + 10 * IntReversed(Tail(num_str))

\* int(num_str) for a run of ASCII digits: most significant digit first
RECURSIVE int(_)
int(num_str) ==
    IF num_str = <<>> THEN 0
    ELSE 10 * int(SubSeq(num_str, 1, Len(num_str) - 1))
         + DigitValue(num_str[Len(num_str)])

\* characters removed by str.strip()
PyWhitespace == {" ", "\t", "\n", "\r"}

\* not source.strip()
StripIsEmpty(s) == \A i \in 1..Len(s) : s[i] \in PyWhitespace

-----------------------------------------------------------------------------
(* Scanner (lines 35-157).  A scanner state is the record of the fields    *)
(* pos, line, col, tokens, errors.                                         *)

INT == "INT"
POW == "POW"
LPAREN == "("
RPAREN == ")"
COMMA == ","
PLUS == "+"
MULT == "*"
EOF == "EOF"
ERROR == "ERROR"

Token(type, value, ln, cl) == [type |-> type, value |-> value, line |-> ln, col |-> cl]

Scanner(src) == [pos |-> 0, line |-> 1, col |-> 1, tokens |-> <<>>, errors |-> <<>>]

Scanner_add_error(errors, message, ln, cl) ==
    Append(errors, [stage |-> "SCANNER", line |-> ln, col |-> cl, message |-> message])

\* the inner while of the digit branch: the position after the digit run
RECURSIVE DigitRunEnd(_, _)
DigitRunEnd(src, p) ==
    IF p < Len(src) /\ isdigit(src[p + 1]) THEN DigitRunEnd(src, p + 1) ELSE p

ScanWhitespace(sc) == [sc EXCEPT !.pos = sc.pos + 1, !.col = sc.col + 1]

ScanNewlineKeepsCol(sc) == [sc EXCEPT !.pos = sc.pos + 1, !.line = sc.line + 1, !.col = sc.col + 1]

ScanNewline(sc) == [sc EXCEPT !.pos = sc.pos + 1, !.line = sc.line + 1, !.col = 1]

ScanNumber(src, sc) ==
    LET start_col == sc.col
        end == DigitRunEnd(src, sc.pos)
        num_str == SubSeq(src, sc.pos + 1, end)
        moved == [sc EXCEPT !.pos = end, !.col = sc.col + (end - sc.pos)]
    IN  IF IntRaisesValueError(num_str)
        THEN [moved EXCEPT
                !.errors = Scanner_add_error(sc.errors, <<"BadNumber", num_str>>, sc.line, start_col),
                !.tokens = Append(sc.tokens, Token(ERROR, num_str, sc.line, start_col))]
        ELSE IF int(num_str) < 0
        THEN [moved EXCEPT
                !.errors = Scanner_add_error(sc.errors, <<"NegativeNumber", num_str>>, sc.line, start_col),
                !.tokens = Append(sc.tokens, Token(ERROR, int(num_str), sc.line, start_col))]
        ELSE [moved EXCEPT
                !.tokens = Append(sc.tokens, Token(INT, int(num_str), sc.line, start_col))]

\* self.pos + 2 < len(self.source) and self.source[self.pos:self.pos+3] == 'pow'
IsPowAt(src, p) ==
    /\ p + 2 < Len(src)
    /\ SubSeq(src, p + 1, p + 3) = <<"p", "o", "w">>

ScanBadUnpaired(sc, ch, message) ==
    [sc EXCEPT
        !.errors = Scanner_add_error(sc.errors, <<message, ch>>, sc.line, sc.col),
        !.pos = sc.pos + 1,
        !.col = sc.col + 1]

\* an invalid character: one diagnostic, one ERROR token, one character consumed
ScanBad(sc, ch, message) ==
    [sc EXCEPT
        !.errors = Scanner_add_error(sc.errors, <<message, ch>>, sc.line, sc.col),
        !.tokens = Append(sc.tokens, Token(ERROR, <<ch>>, sc.line, sc.col)),
        !.pos = sc.pos + 1,
        !.col = sc.col + 1]

ScanP(src, sc, ch) ==
    IF IsPowAt(src, sc.pos)
    THEN [sc EXCEPT
            !.tokens = Append(sc.tokens, Token(POW, NoneVal, sc.line, sc.col)),
            !.pos = sc.pos + 3,
            !.col = sc.col + 3]
    ELSE ScanBad(sc, ch, "UnknownIdentifier")

ScanSingle(sc, type) ==
    [sc EXCEPT
        !.tokens = Append(sc.tokens, Token(type, NoneVal, sc.line, sc.col)),
        !.pos = sc.pos + 1,
        !.col = sc.col + 1]

\* one iteration of the while loop of Scanner.scan
ScanIteration(src, sc) ==
    LET ch == src[sc.pos + 1] IN
    IF ch \in {" ", "\t"} THEN ScanWhitespace(sc)
    ELSE IF ch = "\n" THEN ScanNewline(sc)
    ELSE IF isdigit(ch) THEN ScanNumber(src, sc)
    ELSE IF ch = "p" THEN ScanP(src, sc, ch)
    ELSE IF ch = "(" THEN ScanSingle(sc, LPAREN)
    ELSE IF ch = ")" THEN ScanSingle(sc, RPAREN)
    ELSE IF ch = "," THEN ScanSingle(sc, COMMA)
    ELSE IF ch = "+" THEN ScanSingle(sc, PLUS)
    ELSE IF ch = "*" THEN ScanSingle(sc, MULT)
    ELSE ScanBad(sc, ch, "UnknownChar")

\* the while loop of Scanner.scan run to its end
RECURSIVE scan_loop(_, _)
scan_loop(src, sc) ==
    IF sc.pos < Len(src) THEN scan_loop(src, ScanIteration(src, sc)) ELSE sc

ScanNoEof(sc) == sc.tokens

\* after the loop: self.tokens.append(Token(self.EOF, None, self.line, self.col))
ScanAppendEof(sc) == Append(sc.tokens, Token(EOF, NoneVal, sc.line, sc.col))

\* Scanner(src).scan(): the returned token list
scan(src) == ScanAppendEof(scan_loop(src, Scanner(src)))

-----------------------------------------------------------------------------
(* Parser (lines 163-347).  A parser state is the record of the fields     *)
(* pos, current_token, errors; the token list never changes.  Every        *)
(* parse_* operator returns [node, ps]: the value returned by the method   *)
(* and the parser state it leaves.                                         *)

Parser_add_error(ps, message) ==
    [ps EXCEPT !.errors = Append(ps.errors,
        [stage |-> "SYNTAX", line |-> ps.current_token.line,
         col |-> ps.current_token.col, message |-> message])]

_advance(toks, ps) ==
    IF ps.pos < Len(toks)
    THEN [ps EXCEPT !.current_token = toks[ps.pos + 1], !.pos = ps.pos + 1]
    ELSE ps

\* Parser.__init__: the fields, then the first _advance()
Parser(toks) ==
    _advance(toks, [pos |-> 0, current_token |-> NoneToken, errors |-> <<>>])

\* accepts the current token whatever its type
MatchAnyType(toks, ps, expected_type) ==
    [token |-> ps.current_token, ps |-> _advance(toks, ps)]

\* _match: [token, ps], token = NoneToken for the None result
_match(toks, ps, expected_type) ==
    IF ps.current_token.type = expected_type
    THEN [token |-> ps.current_token, ps |-> _advance(toks, ps)]
    ELSE [token |-> NoneToken,
          ps |-> Parser_add_error(ps, <<"Expected", expected_type, ps.current_token.type>>)]

IsNoneToken(token) == token.type = "None"

\* node = ('+', node, right) with the operands swapped
AddNodeSwapped(node, right) == <<"+", right, node>>

\* node = ('+', node, right)   (line 228)
AddNode(node, right) == <<"+", node, right>>

MulNodeSwapped(node, right) == <<"*", right, node>>

\* node = ('*', node, right)   (line 265)
MulNode(node, right) == <<"*", node, right>>

\* what a parse_* method leaves when it returns None
ReturnNone(ps) == [node |-> NoneNode, ps |-> ps]

ReturnNode(node, ps) == [node |-> node, ps |-> ps]

RECURSIVE parse_expr(_, _)
RECURSIVE parse_sum(_, _)
RECURSIVE parse_sum_first(_, _)
RECURSIVE parse_sum_loop(_, _, _)
RECURSIVE parse_sum_right(_, _, _)
RECURSIVE parse_prod(_, _)
RECURSIVE parse_prod_first(_, _)
RECURSIVE parse_prod_loop(_, _, _)
RECURSIVE parse_prod_right(_, _, _)
RECURSIVE parse_atom(_, _)
RECURSIVE parse_atom_lparen(_, _)
RECURSIVE parse_atom_arg1(_, _)
RECURSIVE parse_atom_comma(_, _)
RECURSIVE parse_atom_arg2(_, _, _)
RECURSIVE parse_atom_rparen(_, _, _)

\* parse_expr (lines 204-208)
parse_expr(toks, ps) == parse_sum(toks, ps)

\* the result of parse_sum_tail / parse_prod_tail once _match has returned m:
\* the tuple (op,) when a token was matched, None otherwise
TailAfterMatch(m, op) ==
    IF IsNoneToken(m.token) THEN ReturnNone(m.ps) ELSE ReturnNode(<<op>>, m.ps)

\* <SumTail> (lines 235-245)
parse_sum_tail(toks, ps) ==
    IF ps.current_token.type = PLUS
    THEN TailAfterMatch(_match(toks, ps, PLUS), "+")
    ELSE ReturnNone(ps)

\* <ProdTail> (lines 272-282)
parse_prod_tail(toks, ps) ==
    IF ps.current_token.type = MULT
    THEN TailAfterMatch(_match(toks, ps, MULT), "*")
    ELSE ReturnNone(ps)

\* parse_sum (lines 210-233): node = self.parse_prod()
parse_sum(toks, ps) == parse_sum_first(toks, parse_prod(toks, ps))

\* lines 215-220: first is what parse_prod returned
parse_sum_first(toks, first) ==
    IF first.node = NoneNode THEN first
    ELSE parse_sum_loop(toks, first.node, parse_sum_tail(toks, first.ps))

\* lines 219-233: tail is what parse_sum_tail returned; the while loop
parse_sum_loop(toks, node, tail) ==
    IF tail.node = NoneNode THEN ReturnNode(node, tail.ps)
    ELSE IF tail.node[1] = "+" THEN parse_sum_right(toks, node, parse_prod(toks, tail.ps))
    ELSE ReturnNode(node, tail.ps)

\* lines 226-229: right is what parse_prod returned inside the loop
parse_sum_right(toks, node, right) ==
    IF right.node = NoneNode THEN right
    ELSE parse_sum_loop(toks, AddNode(node, right.node), parse_sum_tail(toks, right.ps))

\* parse_prod (lines 247-270): node = self.parse_atom()
parse_prod(toks, ps) == parse_prod_first(toks, parse_atom(toks, ps))

\* lines 252-257: first is what parse_atom returned
parse_prod_first(toks, first) ==
    IF first.node = NoneNode THEN first
    ELSE parse_prod_loop(toks, first.node, parse_prod_tail(toks, first.ps))

\* lines 256-270: tail is what parse_prod_tail returned; the while loop
parse_prod_loop(toks, node, tail) ==
    IF tail.node = NoneNode THEN ReturnNode(node, tail.ps)
    ELSE IF tail.node[1] = "*" THEN parse_prod_right(toks, node, parse_atom(toks, tail.ps))
    ELSE ReturnNode(node, tail.ps)

\* lines 262-266: right is what parse_atom returned inside the loop
parse_prod_right(toks, node, right) ==
    IF right.node = NoneNode THEN right
    ELSE parse_prod_loop(toks, MulNode(node, right.node), parse_prod_tail(toks, right.ps))

\* lines 319-324: m is what _match(RPAREN) returned
parse_atom_end(arg1, arg2, m) ==
    IF IsNoneToken(m.token)
    THEN ReturnNone(Parser_add_error(m.ps, <<"ExpectedClosingParen">>))
    ELSE ReturnNode(<<"pow", arg1, arg2>>, m.ps)

\* lines 289-293: m is what _match(INT) returned
parse_atom_int(m) ==
    IF IsNoneToken(m.token) THEN ReturnNone(m.ps)
    ELSE ReturnNode(<<"INT", m.token.value>>, m.ps)

\* parse_atom (lines 284-329)
parse_atom(toks, ps) ==
    IF ps.current_token.type = INT THEN parse_atom_int(_match(toks, ps, INT))
    ELSE IF ps.current_token.type = POW THEN parse_atom_lparen(toks, _match(toks, ps, POW))
    ELSE ReturnNone(Parser_add_error(ps, <<"ExpectedIntOrPow", ps.current_token.type>>))

\* lines 297-302: m is what _match(POW) returned; then "(" is matched
parse_atom_lparen(toks, m) ==
    IF IsNoneToken(m.token) THEN ReturnNone(m.ps)
    ELSE parse_atom_arg1(toks, _match(toks, m.ps, LPAREN))

\* lines 301-305: m is what _match(LPAREN) returned; then the first argument
parse_atom_arg1(toks, m) ==
    IF IsNoneToken(m.token) THEN ReturnNone(m.ps)
    ELSE parse_atom_comma(toks, parse_expr(toks, m.ps))

\* lines 306-309: arg1 is what parse_expr returned; then "," is matched
parse_atom_comma(toks, arg1) ==
    IF arg1.node = NoneNode THEN arg1
    ELSE parse_atom_arg2(toks, arg1.node, _match(toks, arg1.ps, COMMA))

\* lines 309-315: m is what _match(COMMA) returned; then the second argument
parse_atom_arg2(toks, arg1, m) ==
    IF IsNoneToken(m.token)
    THEN ReturnNone(Parser_add_error(m.ps, <<"ExpectedCommaInPow">>))
    ELSE parse_atom_rparen(toks, arg1, parse_expr(toks, m.ps))

\* lines 316-319: arg2 is what parse_expr returned; then ")" is matched
parse_atom_rparen(toks, arg1, arg2) ==
    IF arg2.node = NoneNode THEN arg2
    ELSE parse_atom_end(arg1, arg2.node, _match(toks, arg2.ps, RPAREN))

\* parse() without the check that the end of the tokens was reached
parse_without_eof_check(toks, ps) == parse_expr(toks, ps)

\* lines 337-342: e is what parse_expr returned, its node is self.ast
parse_end(e) ==
    IF e.ps.current_token.type # EOF
    THEN ReturnNode(e.node, Parser_add_error(e.ps,
            <<"UnexpectedTrailingToken", e.ps.current_token.type>>))
    ELSE e

\* Parser.parse (lines 331-342): [node, ps], node is the returned self.ast
parse(toks, ps) == parse_end(parse_expr(toks, ps))

-----------------------------------------------------------------------------
(* SemanticAnalyzer (lines 353-477).  evaluate returns [value, errors]:    *)
(* the returned value and self.errors after the call.  The handlers of     *)
(* OverflowError (lines 392, 411, 439) are left out: +, * and pow on       *)
(* Python integers do not raise it.                                        *)

MaxExponent == 1000

ExponentTooLargeFrom1000(exponent) == exponent >= MaxExponent

\* if exponent > 1000   (line 429)
ExponentTooLarge(exponent) == exponent > MaxExponent

\* the built-in pow(base, exponent) on non-negative integers
pow(base, exponent) == IF exponent = 0 THEN 1 ELSE base ^ exponent

SumInsteadOfProduct(left_val, right_val) == left_val + right_val

\* result = left_val * right_val   (line 406)
Product(left_val, right_val) == left_val * right_val

SemanticErrorDropped(errors, message) == errors

\* self.errors.append(...)
Semantic_add_error(errors, message) ==
    Append(errors, [stage |-> "SEMANTIC", message |-> message])

RECURSIVE evaluate_node(_, _)
evaluate_node(node, errors) ==
    IF node = NoneNode
    THEN [value |-> NoneVal, errors |-> Semantic_add_error(errors, <<"EmptyAst">>)]
    ELSE
    LET node_type == node[1] IN
    IF node_type = "INT" THEN [value |-> node[2], errors |-> errors]
    ELSE IF node_type = "+" THEN
        LET l == evaluate_node(node[2], errors)
            r == evaluate_node(node[3], l.errors)
        IN  IF l.value = NoneVal \/ r.value = NoneVal
            THEN [value |-> NoneVal, errors |-> r.errors]
            ELSE IF l.value + r.value < 0
            THEN [value |-> NoneVal,
                  errors |-> Semantic_add_error(r.errors, <<"NegativeSum", l.value, r.value>>)]
            ELSE [value |-> l.value + r.value, errors |-> r.errors]
    ELSE IF node_type = "*" THEN
        LET l == evaluate_node(node[2], errors)
            r == evaluate_node(node[3], l.errors)
        IN  IF l.value = NoneVal \/ r.value = NoneVal
            THEN [value |-> NoneVal, errors |-> r.errors]
            ELSE IF Product(l.value, r.value) < 0
            THEN [value |-> NoneVal,
                  errors |-> Semantic_add_error(r.errors, <<"NegativeProduct", l.value, r.value>>)]
            ELSE [value |-> Product(l.value, r.value), errors |-> r.errors]
    ELSE IF node_type = "pow" THEN
        LET b == evaluate_node(node[2], errors)
            e == evaluate_node(node[3], b.errors)
        IN  IF b.value = NoneVal \/ e.value = NoneVal
            THEN [value |-> NoneVal, errors |-> e.errors]
            ELSE IF b.value < 0 \/ e.value < 0
            THEN [value |-> NoneVal,
                  errors |-> Semantic_add_error(e.errors, <<"NegativePowArguments", b.value, e.value>>)]
            ELSE IF ExponentTooLarge(e.value)
            THEN [value |-> NoneVal,
                  errors |-> Semantic_add_error(e.errors, <<"ExponentTooLarge", e.value>>)]
            ELSE IF pow(b.value, e.value) < 0
            THEN [value |-> NoneVal,
                  errors |-> Semantic_add_error(e.errors, <<"NegativePowResult", b.value, e.value>>)]
            ELSE [value |-> pow(b.value, e.value), errors |-> e.errors]
    ELSE [value |-> NoneVal, errors |-> Semantic_add_error(errors, <<"UnknownNodeType", node_type>>)]

\* an evaluator that gives up at the first violation it meets
evaluate_first_violation(tree) ==
    [value |-> evaluate_node(tree, <<>>).value,
     errors |-> IF evaluate_node(tree, <<>>).errors = <<>> THEN <<>>
                ELSE <<Head(evaluate_node(tree, <<>>).errors)>>]

\* SemanticAnalyzer(ast).evaluate(): node defaults to self.ast, errors start empty
evaluate(tree) == evaluate_node(tree, <<>>)

-----------------------------------------------------------------------------
(* Inputs: the texts main() may read from a file or from stdin.            *)

Alphabet == {"1", "2", SUP2, "+", "*", "(", ")", ",", "p", "o", "w", " ", "\n", "@"}

\* every text over Alphabet of length at most n
AllTexts(n) == UNION {[1..k -> Alphabet] : k \in 0..n}

PowText(x, y) == <<"p", "o", "w", "(">> \o x \o <<",">> \o y \o <<")">>

RECURSIVE AtomTexts(_, _)
RECURSIVE ProdTexts(_, _)
RECURSIVE SumTexts(_, _)

\* the sentences of <Atom>, <Prod>, <Sum> with exactly n operators and literals lits
AtomTexts(n, lits) ==
    IF n = 0 THEN lits
    ELSE UNION {{PowText(x, y) : x \in SumTexts(i, lits), y \in SumTexts(n - 1 - i, lits)} :
                i \in 0..(n - 1)}

ProdTexts(n, lits) ==
    AtomTexts(n, lits) \cup
    UNION {{x \o <<"*">> \o y : x \in ProdTexts(i, lits), y \in AtomTexts(n - 1 - i, lits)} :
           i \in 0..(n - 1)}

SumTexts(n, lits) ==
    ProdTexts(n, lits) \cup
    UNION {{x \o <<"+">> \o y : x \in SumTexts(i, lits), y \in ProdTexts(n - 1 - i, lits)} :
           i \in 0..(n - 1)}

WellFormedTexts == UNION {SumTexts(n, {<<"0">>, <<"1">>, <<"2">>}) : n \in 0..MaxOps}

\* one character of t deleted, replaced or inserted
Edits(t) ==
    {SubSeq(t, 1, i - 1) \o SubSeq(t, i + 1, Len(t)) : i \in 1..Len(t)}
    \cup {[t EXCEPT ![i] = c] : i \in 1..Len(t), c \in Alphabet}
    \cup {SubSeq(t, 1, i) \o <<c>> \o SubSeq(t, i + 1, Len(t)) : i \in 0..Len(t), c \in Alphabet}

EditedTexts == UNION {Edits(t) : t \in UNION {SumTexts(n, {<<"1">>}) : n \in 0..MaxEditOps}}

\* pow calls whose exponent is at, below and above the limit of line 429
BoundaryExponents ==
    {<<"9", "9", "9">>, <<"1", "0", "0", "0">>, <<"1", "0", "0", "1">>,
     <<"9", "9", "9", "+", "1">>, <<"1", "0", "0", "0", "+", "1">>,
     PowText(<<"1", "0">>, <<"3">>), PowText(<<"1", "0">>, <<"3">>) \o <<"+", "1">>}

OverLimitExponents ==
    {<<"1", "0", "0", "1">>, <<"1", "0", "0", "0", "+", "1">>,
     PowText(<<"1", "0">>, <<"3">>) \o <<"+", "1">>}

BoundaryPows ==
    {PowText(b, e) : b \in {<<"0">>, <<"1">>}, e \in BoundaryExponents}
    \cup {PowText(b, e) : b \in {<<"2">>, <<"1", "0", "0", "1">>}, e \in OverLimitExponents}

BoundaryOperands ==
    {<<"1">>, PowText(<<"1">>, <<"1", "0", "0", "0">>),
     PowText(<<"1">>, <<"1", "0", "0", "1">>), PowText(<<"2">>, <<"1", "0", "0", "0", "+", "1">>)}

BoundaryTexts ==
    BoundaryPows
    \cup {x \o <<"+">> \o y : x \in BoundaryPows, y \in BoundaryOperands}
    \cup {x \o <<"*">> \o y : x \in BoundaryPows, y \in BoundaryOperands}
    \cup {PowText(x, y) : x \in BoundaryPows, y \in BoundaryOperands}
    \cup {PowText(y, x) : x \in BoundaryPows, y \in BoundaryOperands}

Sources == AllTexts(MaxLen) \cup WellFormedTexts \cup EditedTexts \cup BoundaryTexts

\* test_cases of run_tests (lines 604-613); ("pow(2,pow(3,4))", 2 ** (3 ** 4)) is
\* left out: its value 2^81 is outside TLC's integers
test_cases ==
    << [expr |-> <<"7">>, expected |-> 7],
       [expr |-> <<"4", "+", "5", "*", "6">>, expected |-> 34],
       [expr |-> PowText(<<"1", "0">>, <<"2">>), expected |-> 100],
       [expr |-> PowText(<<"1", "+", "3">>, <<"2", "*", "5">>) \o <<"+", "9">>,
        expected |-> 1048585],
       [expr |-> <<"2", "*", "3", "+", "4", "*", "5">>, expected |-> 26],
       [expr |-> PowText(<<"2">>, <<"3">>) \o <<"*", "4">>, expected |-> 32] >>

-----------------------------------------------------------------------------
(* The drivers main() (lines 483-596) and run_tests() (lines 602-660).     *)

Init ==
    /\ driver \in {"main", "run_tests"}
    /\ pc = "start"
    /\ source \in (IF driver = "main" THEN Sources ELSE {<<>>})
    /\ test_i = 0
    /\ passed = 0
    /\ failed = 0
    /\ output = "banner"
    /\ tokens = <<>>
    /\ pos = 0
    /\ line = 1
    /\ col = 1
    /\ scanner_errors = <<>>
    /\ parser_pos = 0
    /\ current_token = NoneToken
    /\ parser_errors = <<>>
    /\ ast = NoneNode
    /\ semantic_errors = <<>>
    /\ result = NoneVal

\* scanner = Scanner(source)
NewScanner(src) ==
    LET sc == Scanner(src) IN
    /\ pos' = sc.pos
    /\ line' = sc.line
    /\ col' = sc.col
    /\ tokens' = sc.tokens
    /\ scanner_errors' = sc.errors

\* main, lines 514-525: an input that strips to nothing ends the run
MainStart ==
    /\ driver = "main"
    /\ pc = "start"
    /\ IF StripIsEmpty(source)
       THEN /\ pc' = "done"
            /\ output' = "empty_input"
            /\ UNCHANGED scanner_vars
       ELSE /\ pc' = "scan"
            /\ output' = "input"
            /\ NewScanner(source)
    /\ UNCHANGED <<driver, source, test_i, passed, failed, parser_vars, semantic_vars>>

\* run_tests, lines 622-627: the head of the for loop over test_cases
TestStart ==
    /\ driver = "run_tests"
    /\ pc = "start"
    /\ IF test_i < Len(test_cases)
       THEN /\ source' = test_cases[test_i + 1].expr
            /\ pc' = "scan"
            /\ output' = "test_header"
            /\ NewScanner(test_cases[test_i + 1].expr)
       ELSE /\ pc' = "done"
            /\ output' = "summary"
            /\ UNCHANGED <<source, scanner_vars>>
    /\ UNCHANGED <<driver, test_i, passed, failed, parser_vars, semantic_vars>>

\* Scanner.scan: one iteration of the while loop (lines 59-144)
ScanStep ==
    /\ pc = "scan"
    /\ pos < Len(source)
    /\ LET sc == ScanIteration(source, [pos |-> pos, line |-> line, col |-> col,
                                         tokens |-> tokens, errors |-> scanner_errors])
       IN  /\ pos' = sc.pos
           /\ line' = sc.line
           /\ col' = sc.col
           /\ tokens' = sc.tokens
           /\ scanner_errors' = sc.errors
    /\ UNCHANGED <<driver, pc, source, test_i, passed, failed, output, parser_vars,
                   semantic_vars>>

\* Scanner.scan: the loop ends, EOF is appended and the tokens are returned
ScanEnd ==
    /\ pc = "scan"
    /\ ~(pos < Len(source))
    /\ tokens' = ScanAppendEof([pos |-> pos, line |-> line, col |-> col,
                                tokens |-> tokens, errors |-> scanner_errors])
    /\ pc' = "scanned"
    /\ UNCHANGED <<driver, source, test_i, passed, failed, output, pos, line, col,
                   scanner_errors, parser_vars, semantic_vars>>

\* run_tests: failed += 1; continue
TestFailed(message) ==
    /\ failed' = failed + 1
    /\ test_i' = test_i + 1
    /\ output' = message
    /\ pc' = "start"
    /\ UNCHANGED passed

\* parser = Parser(tokens); ast = parser.parse()
RunParser ==
    LET p == parse(tokens, Parser(tokens)) IN
    /\ parser_pos' = p.ps.pos
    /\ current_token' = p.ps.current_token
    /\ parser_errors' = p.ps.errors
    /\ ast' = p.node

\* main, lines 528-546: scanner errors are printed and the parser still runs;
\* run_tests, lines 630-637: scanner errors fail the test before the parser
Parse ==
    /\ pc = "scanned"
    /\ IF driver = "run_tests" /\ scanner_errors # <<>>
       THEN /\ TestFailed("test_scanner_error")
            /\ UNCHANGED parser_vars
       ELSE /\ RunParser
            /\ pc' = "parsed"
            /\ output' = IF driver = "main" THEN "tokens" ELSE output
            /\ UNCHANGED <<test_i, passed, failed>>
    /\ UNCHANGED <<driver, source, scanner_vars, semantic_vars>>

\* main, lines 548-551: return; run_tests, lines 639-642: failed += 1; continue
ParseFailed ==
    /\ pc = "parsed"
    /\ parser_errors # <<>>
    /\ IF driver = "main"
       THEN /\ pc' = "done"
            /\ output' = "parser_errors"
            /\ UNCHANGED <<test_i, passed, failed>>
       ELSE TestFailed("test_parser_error")
    /\ UNCHANGED <<driver, source, scanner_vars, parser_vars, semantic_vars>>

\* the evaluation is reached although the parser recorded errors
EvaluateDespiteParserErrors ==
    /\ pc = "parsed"
    /\ LET v == evaluate(ast) IN
       /\ result' = v.value
       /\ semantic_errors' = v.errors
    /\ pc' = "evaluated"
    /\ output' = IF driver = "main" THEN "ast" ELSE output
    /\ UNCHANGED <<driver, source, test_i, passed, failed, scanner_vars, parser_vars>>

\* semantic = SemanticAnalyzer(ast); result = semantic.evaluate()
Evaluate ==
    /\ pc = "parsed"
    /\ parser_errors = <<>>
    /\ LET v == evaluate(ast) IN
       /\ result' = v.value
       /\ semantic_errors' = v.errors
    /\ pc' = "evaluated"
    /\ output' = IF driver = "main" THEN "ast" ELSE output
    /\ UNCHANGED <<driver, source, test_i, passed, failed, scanner_vars, parser_vars>>

\* main, lines 570-592, and run_tests, lines 648-656
Report ==
    /\ pc = "evaluated"
    /\ IF driver = "main"
       THEN /\ output' = IF semantic_errors # <<>> THEN "semantic_errors"
                         ELSE IF result # NoneVal THEN "RESULT"
                         ELSE "no_value"
            /\ pc' = "done"
            /\ UNCHANGED <<test_i, passed, failed>>
       ELSE IF semantic_errors # <<>> THEN TestFailed("test_semantic_error")
       ELSE IF result = test_cases[test_i + 1].expected
       THEN /\ passed' = passed + 1
            /\ test_i' = test_i + 1
            /\ output' = "test_success"
            /\ pc' = "start"
            /\ UNCHANGED failed
       ELSE TestFailed("test_mismatch")
    /\ UNCHANGED <<driver, source, scanner_vars, parser_vars, semantic_vars>>

Next ==
    \/ MainStart
    \/ TestStart
    \/ ScanStep
    \/ ScanEnd
    \/ Parse
    \/ ParseFailed
    \/ Evaluate
    \/ Report

Spec == Init /\ [][Next]_vars

-----------------------------------------------------------------------------
(* Reference definitions the claims are stated with.  They are written     *)
(* from the grammar of lines 6-13 and share nothing with the parser.       *)

\* the token types before the final EOF
Body == [i \in 1..(Len(tokens) - 1) |-> tokens[i].type]

\* the sentences of <Atom>, <Prod>, <Sum> = <Expr> over token types, by splitting
RECURSIVE IsAtom(_)
RECURSIVE IsProd(_)
RECURSIVE IsSum(_)

IsAtom(w) ==
    \/ w = <<INT>>
    \/ /\ Len(w) >= 6
       /\ w[1] = POW
       /\ w[2] = LPAREN
       /\ w[Len(w)] = RPAREN
       /\ \E k \in 4..(Len(w) - 2) :
            /\ w[k] = COMMA
            /\ IsSum(SubSeq(w, 3, k - 1))
            /\ IsSum(SubSeq(w, k + 1, Len(w) - 1))

IsProd(w) ==
    \/ IsAtom(w)
    \/ \E k \in 2..(Len(w) - 1) :
         /\ w[k] = MULT
         /\ IsAtom(SubSeq(w, k + 1, Len(w)))
         /\ IsProd(SubSeq(w, 1, k - 1))

IsSum(w) ==
    \/ IsProd(w)
    \/ \E k \in 2..(Len(w) - 1) :
         /\ w[k] = PLUS
         /\ IsProd(SubSeq(w, k + 1, Len(w)))
         /\ IsSum(SubSeq(w, 1, k - 1))

IsExpr(w) == IsSum(w)

\* the reference evaluation of a text: its value, or NotAnExpression when the text
\* is no expression or one of its exponents is above 1000
NotAnExpression == NoneVal

Blank == {" ", "\t", "\n"}

RECURSIVE TrimLeft(_)
TrimLeft(t) == IF t # <<>> /\ Head(t) \in Blank THEN TrimLeft(Tail(t)) ELSE t

RECURSIVE TrimRight(_)
TrimRight(t) ==
    IF t # <<>> /\ t[Len(t)] \in Blank THEN TrimRight(SubSeq(t, 1, Len(t) - 1)) ELSE t

Trim(t) == TrimRight(TrimLeft(t))

\* the nesting depth of parentheses in front of position k
Depth(t, k) ==
    Cardinality({i \in 1..(k - 1) : t[i] = "("}) - Cardinality({i \in 1..(k - 1) : t[i] = ")"})

\* the positions of character ch outside every parenthesis
TopLevel(t, ch) == {k \in 1..Len(t) : t[k] = ch /\ Depth(t, k) = 0}

Last(S) == CHOOSE k \in S : \A j \in S : j <= k

RECURSIVE Decimal(_, _)
Decimal(t, acc) ==
    IF t = <<>> THEN acc ELSE Decimal(Tail(t), 10 * acc + DigitValue(Head(t)))

RefCombine(x, y, op) ==
    IF x < 0 \/ y < 0 THEN NotAnExpression
    ELSE IF op = "+" THEN x + y
    ELSE IF op = "*" THEN x * y
    ELSE IF y > 1000 THEN NotAnExpression
    ELSE IF y = 0 THEN 1
    ELSE x ^ y

RECURSIVE RefSum(_)
RECURSIVE RefProd(_)
RECURSIVE RefAtom(_)

RefSum(t) ==
    IF TopLevel(t, "+") = {} THEN RefProd(t)
    ELSE RefCombine(RefSum(SubSeq(t, 1, Last(TopLevel(t, "+")) - 1)),
                    RefProd(SubSeq(t, Last(TopLevel(t, "+")) + 1, Len(t))), "+")

RefProd(t) ==
    IF TopLevel(t, "*") = {} THEN RefAtom(Trim(t))
    ELSE RefCombine(RefProd(SubSeq(t, 1, Last(TopLevel(t, "*")) - 1)),
                    RefAtom(Trim(SubSeq(t, Last(TopLevel(t, "*")) + 1, Len(t)))), "*")

\* the arguments of pow: r is the text "( ... )" that follows the keyword
RefPowCall(r) ==
    IF Len(r) >= 2 /\ r[1] = "(" /\ r[Len(r)] = ")"
       /\ Cardinality(TopLevel(SubSeq(r, 2, Len(r) - 1), ",")) = 1
    THEN RefCombine(
            RefSum(SubSeq(r, 2, Last(TopLevel(SubSeq(r, 2, Len(r) - 1), ",")))),
            RefSum(SubSeq(r, Last(TopLevel(SubSeq(r, 2, Len(r) - 1), ",")) + 2, Len(r) - 1)),
            "pow")
    ELSE NotAnExpression

RefAtom(t) ==
    IF t # <<>> /\ \A i \in 1..Len(t) : t[i] \in AsciiDigits THEN Decimal(t, 0)
    ELSE IF Len(t) >= 3 /\ SubSeq(t, 1, 3) = <<"p", "o", "w">>
    THEN RefPowCall(Trim(SubSeq(t, 4, Len(t))))
    ELSE NotAnExpression

RefValue(t) == RefSum(t)

NoErrors == scanner_errors = <<>> /\ parser_errors = <<>> /\ semantic_errors = <<>>

-----------------------------------------------------------------------------
(* The claims.                                                             *)

\* C1: for a well-formed expression whose exponents are at most 1000, the
\* scanner, the parser and the evaluator leave their three error lists empty
\* and the evaluator returns the reference value ("*" binds tighter than "+",
\* pow(a,b) is an atom equal to a^b).
C1_PipelineGivesReferenceValue ==
    /\ (pc = "parsed" /\ RefValue(source) >= 0)
          => (scanner_errors = <<>> /\ parser_errors = <<>> /\ ast # NoneNode)
    /\ (pc = "evaluated" /\ RefValue(source) >= 0)
          => (NoErrors /\ result = RefValue(source))

C1_Witness ==
    /\ pc = "evaluated"
    /\ source = <<"2", "+", "2", "*", "2">>
    /\ RefValue(source) = 6
    /\ result = 6

\* C2: Parser.parse records at most one diagnostic per run.
C2_AtMostOneParserDiagnostic ==
    pc = "parsed" => Len(parser_errors) <= 1

\* C3: a value is presented (main prints the result, run_tests reports a
\* success) only when the scanner, parser and semantic error lists are empty.
C3_ValueOnlyWithoutErrors ==
    output \in {"RESULT", "test_success"} => NoErrors

C3_Witness ==
    /\ driver = "main"
    /\ pc = "done"
    /\ output = "RESULT"
    /\ result >= 0

\* C4: when the scanned tokens contain an ERROR token, Parser.parse ends with a
\* non-empty error list and no ERROR token is among the tokens it consumed.
C4_ErrorTokenFailsParsing ==
    (pc = "parsed" /\ \E i \in 1..Len(tokens) : tokens[i].type = ERROR)
        => /\ parser_errors # <<>>
           /\ \A i \in 1..(parser_pos - 1) : tokens[i].type # ERROR

C4_Witness ==
    /\ pc = "parsed"
    /\ Len(tokens) >= 3
    /\ tokens[1].type = INT
    /\ tokens[2].type = ERROR
    /\ ast # NoneNode
    /\ parser_errors # <<>>

\* C5: Parser.parse ends with no diagnostic and an AST exactly when the tokens
\* before EOF are one sentence of <Expr>; a token left over after a complete
\* <Expr> gives one diagnostic while the AST built so far is still returned.
C5_AcceptsExactlyExpr ==
    pc = "parsed" =>
        /\ (parser_errors = <<>> /\ ast # NoneNode) <=> IsExpr(Body)
        /\ (parser_errors = <<>>) => ast # NoneNode
        /\ (\E k \in 1..(Len(Body) - 1) :
                IsExpr(SubSeq(Body, 1, k)) /\ Body[k + 1] \notin {PLUS, MULT})
              => /\ ast # NoneNode
                 /\ Len(parser_errors) = 1
                 /\ parser_errors[1].message[1] = "UnexpectedTrailingToken"

C5_Witness ==
    /\ pc = "parsed"
    /\ Body = <<POW, LPAREN, INT, COMMA, INT, RPAREN, RPAREN>>
    /\ ast # NoneNode
    /\ Len(parser_errors) = 1

\* the nodes of an AST
RECURSIVE Nodes(_)
Nodes(node) ==
    IF node = NoneNode THEN {}
    ELSE IF node[1] = "INT" THEN {node}
    ELSE {node} \cup Nodes(node[2]) \cup Nodes(node[3])

\* C6: a Pow node whose base and exponent evaluate to values gives base^exponent
\* and no diagnostic when the exponent is at most 1000, and None with exactly
\* one diagnostic when the exponent is 1001 or more, whatever the base.
C6_ExponentLimit ==
    pc = "evaluated" =>
        /\ \A n \in Nodes(ast) :
             (n[1] = "pow" /\ evaluate(n[2]).value # NoneVal /\ evaluate(n[3]).value # NoneVal)
             => IF evaluate(n[3]).value <= 1000
                THEN /\ evaluate(n).errors = <<>>
                     /\ evaluate(n).value =
                           RefCombine(evaluate(n[2]).value, evaluate(n[3]).value, "pow")
                     /\ evaluate(n).value >= 0
                ELSE /\ evaluate(n).value = NoneVal
                     /\ Len(evaluate(n).errors) = 1
        /\ result = evaluate(ast).value
        /\ semantic_errors = evaluate(ast).errors

C6_Witness ==
    /\ pc = "evaluated"
    /\ ast = <<"+", <<"pow", <<"INT", 1>>, <<"INT", 1000>>>>,
                    <<"pow", <<"INT", 1>>, <<"INT", 1001>>>>>>
    /\ result = NoneVal
    /\ Len(semantic_errors) = 1

\* C7: the token list Scanner.scan returns holds exactly one EOF token, and it
\* is the last one, with or without lexical errors.
C7_ExactlyOneEofAtEnd ==
    /\ pc = "scan" => \A i \in 1..Len(tokens) : tokens[i].type # EOF
    /\ pc \in {"scanned", "parsed", "evaluated"} =>
          /\ tokens # <<>>
          /\ tokens[Len(tokens)].type = EOF
          /\ \A i \in 1..(Len(tokens) - 1) : tokens[i].type # EOF

C7_Witness ==
    /\ pc = "scanned"
    /\ scanner_errors # <<>>
    /\ Len(tokens) >= 3
    /\ tokens[Len(tokens)].type = EOF

\* a character the scanner consumes neither as whitespace, nor in a digit run,
\* nor as the keyword pow, nor as one of ( ) , + *
BadCharAt(src, p) ==
    /\ src[p + 1] \notin {" ", "\t", "\n", "(", ")", ",", "+", "*"}
    /\ src[p + 1] \notin AsciiDigits \cup {SUP2}
    /\ ~(p + 3 <= Len(src) /\ src[p + 1] = "p" /\ src[p + 2] = "o" /\ src[p + 3] = "w")

\* the positions (0-based) of the bad characters of a text: the scanner is at
\* position p of a bad character when no pow that starts earlier covers p
RECURSIVE BadPositions(_, _)
BadPositions(src, p) ==
    IF p >= Len(src) THEN {}
    ELSE IF src[p + 1] \in AsciiDigits \cup {SUP2, " ", "\t", "\n", "(", ")", ",", "+", "*"}
    THEN BadPositions(src, p + 1)
    ELSE IF BadCharAt(src, p) THEN {p} \cup BadPositions(src, p + 1)
    ELSE BadPositions(src, p + 3)

\* the text with its bad characters replaced by spaces
Cleaned(src) == [i \in 1..Len(src) |-> IF (i - 1) \in BadPositions(src, 0) THEN " " ELSE src[i]]

ErrorCount(toks) == Cardinality({i \in 1..Len(toks) : toks[i].type = ERROR})

RECURSIVE WithoutBad(_)
WithoutBad(toks) ==
    IF toks = <<>> THEN <<>>
    ELSE IF Head(toks).type = ERROR /\ Len(Head(toks).value) = 1 /\ Head(toks).value[1] # SUP2
    THEN WithoutBad(Tail(toks))
    ELSE <<Head(toks)>> \o WithoutBad(Tail(toks))

\* C8: the scanner never stops early; a bad character gives exactly one
\* diagnostic and one ERROR token and moves the position by one; diagnostics and
\* ERROR tokens are equal in number; the tokens after a bad character are still
\* emitted, in order.
C8_BadCharacterPolicy ==
    /\ [](Len(scanner_errors) = ErrorCount(tokens))
    /\ [](pc = "scan" => pos <= Len(source) /\ ENABLED (ScanStep \/ ScanEnd))
    /\ [][(pc = "scan" /\ pos < Len(source) /\ BadCharAt(source, pos))
             => /\ pos' = pos + 1
                /\ Len(tokens') = Len(tokens) + 1
                /\ SubSeq(tokens', 1, Len(tokens)) = tokens
                /\ tokens'[Len(tokens')].type = ERROR
                /\ Len(scanner_errors') = Len(scanner_errors) + 1
                /\ SubSeq(scanner_errors', 1, Len(scanner_errors)) = scanner_errors
                /\ pc' = "scan"]_vars
    /\ [](pc = "scanned" => WithoutBad(tokens) = scan(Cleaned(source)))

C8_Witness ==
    /\ pc = "scanned"
    /\ Len(tokens) = 4
    /\ tokens[1].type = ERROR
    /\ tokens[2].type = INT
    /\ tokens[3].type = ERROR
    /\ Len(scanner_errors) = 2

\* C9: evaluate ends in one of two shapes: a non-negative value and no semantic
\* diagnostic, or None and at least one semantic diagnostic.
ValueShape(v) ==
    \/ v.value >= 0 /\ v.errors = <<>>
    \/ v.value = NoneVal /\ v.errors # <<>>

RECURSIVE LeftFold(_, _, _)
LeftFold(op, toks, k) ==
    IF k = 1 THEN <<"INT", toks[1].value>>
    ELSE <<op, LeftFold(op, toks, k - 1), <<"INT", toks[2 * k - 1].value>>>>

IsChain(w, op) ==
    /\ Len(w) >= 3
    /\ Len(w) % 2 = 1
    /\ \A i \in 1..Len(w) : w[i] = (IF i % 2 = 1 THEN INT ELSE op)

\* the AST Parser.parse returns for the tokens i..j of the scan
SubAst(i, j) ==
    parse(SubSeq(tokens, i, j) \o <<Token(EOF, NoneVal, 0, 0)>>,
          Parser(SubSeq(tokens, i, j) \o <<Token(EOF, NoneVal, 0, 0)>>)).node

\* the positions of op in the tokens that are outside every parenthesis
TopLevelTokens(op) == TopLevel(Body, op)

\* C10: chains of one operator are folded to the left: a1+a2+...+an gives
\* ('+', ('+', a1, a2), ..., an) and a1*a2*...*an gives ('*', ('*', a1, a2), ..., an).
C10_LeftAssociativeFold ==
    (pc = "parsed" /\ parser_errors = <<>>) =>
        /\ IsChain(Body, PLUS) => ast = LeftFold("+", tokens, (Len(Body) + 1) \div 2)
        /\ IsChain(Body, MULT) => ast = LeftFold("*", tokens, (Len(Body) + 1) \div 2)
        /\ TopLevelTokens(PLUS) # {} =>
              ast = <<"+", SubAst(1, Last(TopLevelTokens(PLUS)) - 1),
                           SubAst(Last(TopLevelTokens(PLUS)) + 1, Len(Body))>>
        /\ (TopLevelTokens(PLUS) = {} /\ TopLevelTokens(MULT) # {}) =>
              ast = <<"*", SubAst(1, Last(TopLevelTokens(MULT)) - 1),
                           SubAst(Last(TopLevelTokens(MULT)) + 1, Len(Body))>>

C10_Witness ==
    /\ pc = "parsed"
    /\ parser_errors = <<>>
    /\ IsChain(Body, PLUS)
    /\ ast = <<"+", <<"+", <<"INT", 1>>, <<"INT", 2>>>>, <<"INT", 0>>>>

\* the Pow nodes of a tree, counted by occurrence, whose base and exponent both
\* evaluate to values and whose exponent value exceeds 1000
RECURSIVE OverLimitPows(_)
OverLimitPows(node) ==
    IF node[1] = "INT" THEN 0
    ELSE OverLimitPows(node[2]) + OverLimitPows(node[3])
         + (IF /\ node[1] = "pow"
               /\ evaluate(node[2]).value # NoneVal
               /\ evaluate(node[3]).value # NoneVal
               /\ evaluate(node[3]).value > 1000
            THEN 1 ELSE 0)

\* C11: an Add, Mul or Pow node with an absent operand is absent and adds no
\* diagnostic of its own: its diagnostics are those of its left operand followed
\* by those of its right operand, so a violation on one side does not hide the
\* other side's.  Over a whole tree the number of semantic diagnostics is the
\* number of Pow nodes with two operand values and an exponent above 1000.
C11_AbsentPropagatesSilently ==
    /\ (pc \in {"parsed", "evaluated"} /\ parser_errors = <<>>) =>
          \A n \in Nodes(ast) :
             /\ Len(evaluate(n).errors) = OverLimitPows(n)
             /\ (n[1] # "INT" /\ (evaluate(n[2]).value = NoneVal \/ evaluate(n[3]).value = NoneVal))
                => /\ evaluate(n).value = NoneVal
                   /\ evaluate(n).errors = evaluate(n[2]).errors \o evaluate(n[3]).errors
    /\ pc = "evaluated" => Len(semantic_errors) = OverLimitPows(ast)

C11_Witness ==
    /\ pc = "evaluated"
    /\ ast = <<"+", <<"pow", <<"INT", 1>>, <<"INT", 1001>>>>,
                    <<"pow", <<"INT", 1>>, <<"INT", 1001>>>>>>
    /\ result = NoneVal
    /\ Len(semantic_errors) = 2

\* the line of the character at offset p (0-based) of a text: one more than the
\* number of newlines before it
RefLine(src, p) == 1 + Cardinality({i \in 1..p : src[i] = "\n"})

\* the column of the character at offset p: its distance from the last newline
\* before it, or from the start of the text
RefCol(src, p) ==
    LET newlines == {i \in 1..p : src[i] = "\n"}
    IN  IF newlines = {} THEN p + 1 ELSE p + 1 - Last(newlines)

\* the offset of the character at a line and a column of a text
OffsetOf(src, ln, cl) ==
    CHOOSE p \in 0..Len(src) : RefLine(src, p) = ln /\ RefCol(src, p) = cl

\* the text of token tok begins at offset p of the text
TokenStartsAt(src, tok, p) ==
    IF tok.type = EOF THEN p = Len(src)
    ELSE /\ p < Len(src)
         /\ CASE tok.type = INT ->
                    /\ src[p + 1] \in AsciiDigits
                    /\ (p = 0 \/ src[p] \notin AsciiDigits \cup {SUP2})
              [] tok.type = POW ->
                    /\ p + 3 <= Len(src)
                    /\ SubSeq(src, p + 1, p + 3) = <<"p", "o", "w">>
              [] tok.type = ERROR ->
                    /\ p + Len(tok.value) <= Len(src)
                    /\ SubSeq(src, p + 1, p + Len(tok.value)) = tok.value
              [] OTHER -> src[p + 1] = tok.type

InSourceOrder(toks) ==
    \A i \in 1..(Len(toks) - 1) :
        /\ toks[i].line <= toks[i + 1].line
        /\ toks[i].line = toks[i + 1].line => toks[i].col <= toks[i + 1].col

\* C12: the tokens of a scan, EOF included, are in source order: the line never
\* decreases along the sequence and on one line the column never decreases.
\* Every token carries the line and column of its first character (EOF: of the
\* end of the text), where lines are counted by newlines and the column starts
\* again at 1 after each newline.
C12_TokensInSourceOrder ==
    /\ [](pc \in {"scan", "scanned", "parsed", "evaluated"} =>
            /\ InSourceOrder(tokens)
            /\ \A i \in 1..Len(tokens) :
                  /\ \E p \in 0..Len(source) :
                        RefLine(source, p) = tokens[i].line /\ RefCol(source, p) = tokens[i].col
                  /\ TokenStartsAt(source, tokens[i],
                                   OffsetOf(source, tokens[i].line, tokens[i].col)))
    /\ [](pc = "scan" => line = RefLine(source, pos) /\ col = RefCol(source, pos))
    /\ [][(pc = "scan" /\ Len(tokens') > Len(tokens))
             => /\ Len(tokens') = Len(tokens) + 1
                /\ tokens'[Len(tokens')].line = RefLine(source, pos)
                /\ tokens'[Len(tokens')].col = RefCol(source, pos)]_vars

C12_Witness ==
    /\ pc = "scanned"
    /\ Len(tokens) = 4
    /\ tokens[2].type = PLUS /\ tokens[2].line = 1 /\ tokens[2].col = 2
    /\ tokens[3].type = INT /\ tokens[3].line = 2 /\ tokens[3].col = 1
    /\ tokens[4].type = EOF /\ tokens[4].line = 2 /\ tokens[4].col = 2

====
